---- MODULE Spec2Model ----
(***************************************************************************)
(* A model of src/src/index.js: the Promise object (state, value, queue),  *)
(* its settle primitives doResolve / doReject, the Executor records kept   *)
(* in a promise's queue, the setTimeout task queue used by __runInOrder,   *)
(* the first-call-wins latch of __callThen, the static combinators and     *)
(* the Deferred handle.                                                    *)
(*                                                                         *)
(* JavaScript runs every call to completion, so each public call and each  *)
(* timer task is one atomic action.  The heap is passed through the        *)
(* operators as a record S (the "store"); an action reads the variables    *)
(* into a store, applies the operators that model the code and writes the  *)
(* resulting store back.                                                   *)
(***************************************************************************)
EXTENDS Integers, Sequences, FiniteSets, TLC

VARIABLES
  state,      \* state[p]  : this.state of promise p              (index.js:48)
  value,      \* value[p]  : this.value of promise p              (index.js:50)
  queue,      \* queue[p]  : this.queue, a sequence of Executors  (index.js:54)
  latches,    \* latches[l]: the closure of one __callThen call: self, called
  tasks,      \* callbacks handed to setTimeout and not yet run, in FIFO order
  timers,     \* timers[i]: a callback handed to setTimeout with a duration (delay)
  now,        \* the clock the timers are measured against
  thenables,  \* thenables[n]: a thenable object of the caller: what its then does
  uncaught,   \* every error thrown out of a timer callback, to the host's top level
  aggs,       \* aggs[a]   : the closure of one Promise.all call: countDone, len, values
  deferreds,  \* deferreds[d]: one Deferred object: promise, _resolve, _reject
  budget,     \* how many more public calls the caller makes
  known,      \* the promises the caller holds: those a public call has returned
  log,        \* history: every invocation of a handler passed to then by the caller
  regs,       \* history: every then call made by the caller
  settled,    \* history: every assignment of a non-pending state, in order
  calls,      \* history: every call of a Deferred trigger, in order
  races,      \* history: every Promise.race call, with its items as they were at the call
  ops         \* history: every other public call of the caller, in order

vars == <<state, value, queue, latches, tasks, timers, now, thenables, uncaught,
          aggs, deferreds, budget, known, log, regs, settled, calls, races, ops>>

(***************************************************************************)
(* Program constants.                                                      *)
(***************************************************************************)
PENDING == 0
FULFILLED == 1
REJECTED == 2

(***************************************************************************)
(* Bounds of the model.  Each specification below starts from a heap the   *)
(* program reaches by a few public calls and lets the caller make a        *)
(* bounded number of further calls, in any order and with the timer tasks  *)
(* run at any point between them.                                          *)
(***************************************************************************)
\* values 1..MaxValue are the plain (non-thenable) values the caller passes
MaxValue == 2
\* longest array handed to Promise.all / Promise.race
MaxItems == 2
\* public calls the caller makes in SpecTrigger, SpecThen, SpecAll and SpecRace
TriggerCalls == 3
ThenCalls == 3
AllCalls == 2
RaceCalls == 3
\* public calls the caller makes in SpecAdopt
AdoptCalls == 2
\* public calls the caller makes in SpecResolver
ResolverCalls == 2
\* public calls the caller makes in SpecDelay
DelayCalls == 2
\* longest duration handed to delay, and how far the clock runs
MaxDelay == 1
MaxTime == 1
\* public calls the caller makes in SpecSelf
SelfCalls == 3
\* public calls the caller makes in SpecPrimitive
PrimitiveCalls == 3
\* public calls the caller makes in SpecDone
DoneCalls == 2
\* public calls the caller makes in SpecChain
ChainCalls == 2
\* most steps a function of the caller takes with the (resolve, reject) it is handed
MaxSteps == 2

(***************************************************************************)
(* JavaScript values.  A value is a record [t, n]: a plain value n, a      *)
(* reference to promise n of this library, a reference to the array held   *)
(* by Promise.all call n (arrays are objects: the aggregate's value and    *)
(* the closure's `values` are the same array), a thenable object of the    *)
(* caller, a TypeError, or undefined.                                      *)
(***************************************************************************)
Val(n) == [t |-> "value", n |-> n]
Ref(p) == [t |-> "promise", n |-> p]
Arr(a) == [t |-> "array", n |-> a]
\* thenable object n of the caller: an object with a callable member `then`
Thenable(n) == [t |-> "thenable", n |-> n]
Undefined == [t |-> "undefined", n |-> 0]
\* new TypeError('resolver must be a function')
ResolverError == [t |-> "TypeError", n |-> 1]
\* new TypeError('Cannot resolve promise with itself.')
SelfError == [t |-> "TypeError", n |-> 2]
\* new TypeError('argument must be an array.')
ArrayError == [t |-> "TypeError", n |-> 3]
\* TypeError raised by the engine for values.forEach on a value without forEach
ForEachError == [t |-> "TypeError", n |-> 4]
\* TypeError raised by the engine for calling a value that is not a function
NotCallableError == [t |-> "TypeError", n |-> 5]

(***************************************************************************)
(* Functions.  A function value is a record [k, id, ix]:                   *)
(*   none        : not a function (null, undefined, any non-callable)      *)
(*   id, throw   : a handler of the caller: returns / throws its argument; *)
(*                 id is the then call it was passed to, ix 1 for the      *)
(*                 first argument (onResolved) and 2 for the second        *)
(*   self        : a handler of the caller that returns the promise its    *)
(*                 then call returned: var p2 = p.then(function () {       *)
(*                 return p2; })                                           *)
(*   resolve, reject : the two closures of __callThen call id              *)
(*   allResolved, allRejected : the closures of Promise.all call id, for   *)
(*                 the item at index ix                                    *)
(*   then        : the wrapper getThen returns for promise id              *)
(*   userThen    : the wrapper getThen returns for thenable object id      *)
(*   doneCatch   : the function (error) done call id passes to catch       *)
(*   rethrow     : function () { throw error; } of done call id            *)
(*   delayResolved, delayRejected : the two handlers of delay call id,     *)
(*                 whose duration is ix                                    *)
(***************************************************************************)
Fn(k, id, ix) == [k |-> k, id |-> id, ix |-> ix]
\* null, undefined or any other value that is not a function
null == Fn("none", 0, 0)
\* util.noop, the resolver that the constructor does not call
noop == [k |-> "noop"]

isFunction(func) == func.k # "none"

\* typeof obj === 'object': promises, arrays, thenable objects and errors are objects;
\* no value of the model is itself a function
isObject(obj) == obj.t \in {"promise", "array", "thenable", "TypeError"}

\* whether a value counts as true in `target && ...`
truthy(target) == target.t # "undefined" /\ target # [t |-> "value", n |-> 0]

\* target.then: Promise.prototype.then for a promise of this library, the caller's
\* function for a thenable object; arrays, errors and plain values have no property `then`
thenOf(target) ==
  CASE target.t = "promise" -> Fn("then", target.n, 0)
    [] target.t = "thenable" -> Fn("userThen", target.n, 0)
    [] OTHER -> null

\* util.getThen: the wrapper function () { then.apply(target, arguments); }, or nothing
getThen(target) ==
  IF truthy(target) /\ isObject(target) /\ isFunction(thenOf(target))
    THEN thenOf(target)
    ELSE null

Executor(promise, onResolved, onRejected) ==
  [promise |-> promise, onResolved |-> onResolved, onRejected |-> onRejected]

(***************************************************************************)
(* The store.                                                              *)
(***************************************************************************)
Store ==
  [state |-> state, value |-> value, queue |-> queue, latches |-> latches,
   tasks |-> tasks, timers |-> timers, now |-> now, thenables |-> thenables,
   uncaught |-> uncaught, aggs |-> aggs, deferreds |-> deferreds,
   log |-> log, regs |-> regs, settled |-> settled, ctx |-> "", ret |-> Undefined]

\* function Promise(resolver) with resolver === util.noop: the fields of a new object
newPromise(S) ==
  [S EXCEPT !.state = Append(@, PENDING),
            !.value = Append(@, Val(0)),
            !.queue = Append(@, <<>>),
            !.ret = Ref(Len(S.state) + 1)]

(***************************************************************************)
(* The operators that model the code.  Each takes the store and returns    *)
(* the store after the call; a call's return value is left in S.ret.       *)
(***************************************************************************)
RECURSIVE doResolve(_, _, _)
RECURSIVE doReject(_, _, _)
RECURSIVE forEachDoResolve(_, _, _, _)
RECURSIVE forEachDoReject(_, _, _, _)
RECURSIVE callThen(_, _, _)
RECURSIVE then(_, _, _, _)
RECURSIVE runInOrder(_, _, _, _)
RECURSIVE timerCallback(_, _, _, _)
RECURSIVE call(_, _, _)
RECURSIVE raceForEach(_, _, _, _, _)
RECURSIVE runScript(_, _, _, _, _)
RECURSIVE Promise(_, _)

\* the result of calling a function: the store, whether it threw, and what it
\* returned (or threw)
Returned(S, ret) == [S |-> S, threw |-> FALSE, ret |-> ret]
Thrown(S, e) == [S |-> S, threw |-> TRUE, ret |-> e]

\* history: a handler the caller passed to then is being invoked
Invoked(S, fn, arg) ==
  [S EXCEPT !.log = Append(@, [reg |-> fn.id, ix |-> fn.ix, arg |-> arg, ctx |-> S.ctx])]

\* history: promise self has been assigned a non-pending state
Settled(S, self) ==
  [S EXCEPT !.settled =
     Append(@, [p |-> self, state |-> S.state[self], value |-> S.value[self]])]

\* function resolve(value) of __callThen call l
resolveTrigger(S, l, v) ==
  IF ~S.latches[l].called
    THEN doResolve([S EXCEPT !.latches[l].called = TRUE], S.latches[l].self, v)
    ELSE S

\* a faulty reject(e): it does not look at `called`
rejectTriggerNoLatch(S, l, e) ==
  doReject([S EXCEPT !.latches[l].called = TRUE], S.latches[l].self, e)

\* function reject(e) of __callThen call l
rejectTrigger(S, l, e) ==
  IF ~S.latches[l].called
    THEN doReject([S EXCEPT !.latches[l].called = TRUE], S.latches[l].self, e)
    ELSE S

\* function onResolved(value) of Promise.all call a, for the item at index ix
allOnResolved(S, a, ix, v) ==
  LET S1 == [S EXCEPT !.aggs[a].values[ix] = v,
                      !.aggs[a].countDone = @ + 1]
  IN IF S1.aggs[a].countDone = S1.aggs[a].len
       THEN doResolve(S1, S1.aggs[a].promise, Arr(a))
       ELSE S1

\* function onRejected(err) of Promise.all call a
allOnRejected(S, a, err) == doReject(S, S.aggs[a].promise, err)

\* setTimeout(function () { fn(v); }, duration), called for delay call `by`
setTimeout(S, fn, v, duration, by) ==
  [S EXCEPT !.timers = Append(@, [due |-> S.now + duration, fn |-> fn, value |-> v,
                                  by |-> by, fired |-> FALSE])]

\* function onResolved(value) of delay
delayOnResolved(S, fn, v) ==
  LET S1 == Promise(S, [k |-> "delayResolve", value |-> v, duration |-> fn.ix, by |-> fn.id])
  IN Returned(S1, S1.ret)

\* a faulty onRejected(err) of delay: its timer calls resolve
delayOnRejectedResolves(S, fn, err) ==
  LET S1 == Promise(S, [k |-> "delayResolve", value |-> err, duration |-> fn.ix, by |-> fn.id])
  IN Returned(S1, S1.ret)

\* function onRejected(err) of delay
delayOnRejected(S, fn, err) ==
  LET S1 == Promise(S, [k |-> "delayReject", value |-> err, duration |-> fn.ix, by |-> fn.id])
  IN Returned(S1, S1.ret)

\* function (error) { setTimeout(function () { throw error; }, 0); } of done call `by`:
\* the callback joins the queue of the callbacks of __runInOrder
doneCatch(S, by, error) ==
  [S EXCEPT !.tasks = Append(@, [self |-> 0, fn |-> Fn("rethrow", by, 0), value |-> error])]

\* function () { throw error; } of done call `by`, when the timer fires: the error
\* reaches the host's top level
rethrow(S, by, error) ==
  [S EXCEPT !.uncaught = Append(@, [error |-> error, by |-> by])]

\* fn(v) for a function value fn
call(S, fn, v) ==
  CASE fn.k = "id" -> Returned(Invoked(S, fn, v), v)
    [] fn.k = "doneCatch" -> Returned(doneCatch(S, fn.id, v), Undefined)
    [] fn.k = "delayResolved" -> delayOnResolved(S, fn, v)
    [] fn.k = "delayRejected" -> delayOnRejected(S, fn, v)
    [] fn.k = "throw" -> Thrown(Invoked(S, fn, v), v)
    [] fn.k = "self" -> Returned(Invoked(S, fn, v), Ref(S.regs[fn.id].ret))
    [] fn.k = "resolve" -> Returned(resolveTrigger(S, fn.id, v), Undefined)
    [] fn.k = "reject" -> Returned(rejectTrigger(S, fn.id, v), Undefined)
    [] fn.k = "allResolved" -> Returned(allOnResolved(S, fn.id, fn.ix, v), Undefined)
    [] fn.k = "allRejected" -> Returned(allOnRejected(S, fn.id, v), Undefined)
    [] OTHER -> Thrown(S, NotCallableError)

\* a faulty callback of __runInOrder: no try / catch around fn(value), so what fn
\* throws leaves the callback
timerCallbackNoCatch(S, self, fn, v) ==
  LET r == call(S, fn, v)
  IN IF r.threw
       THEN [r.S EXCEPT !.uncaught = Append(@, [error |-> r.ret, by |-> 0])]
       ELSE IF r.ret = Ref(self)
              THEN doReject(r.S, self, SelfError)
              ELSE doResolve(r.S, self, r.ret)

\* a faulty callback of __runInOrder: it does not compare ret with self
timerCallbackNoSelfCheck(S, self, fn, v) ==
  LET r == call(S, fn, v)
  IN IF r.threw
       THEN doReject(r.S, self, r.ret)
       ELSE doResolve(r.S, self, r.ret)

\* the function handed to setTimeout by __runInOrder, when the timer fires
timerCallback(S, self, fn, v) ==
  LET r == call(S, fn, v)
  IN IF r.threw
       THEN doReject(r.S, self, r.ret)
       ELSE IF r.ret = Ref(self)
              THEN doReject(r.S, self, SelfError)
              ELSE doResolve(r.S, self, r.ret)

\* a faulty __runInOrder: it runs the function at once instead of handing it to setTimeout
runInOrderInline(S, self, fn, v) == timerCallback(S, self, fn, v)

\* a faulty __runInOrder: the scheduler runs the newest callback first
runInOrderLifo(S, self, fn, v) ==
  [S EXCEPT !.tasks = <<[self |-> self, fn |-> fn, value |-> v]>> \o @]

\* Promise.prototype.__runInOrder
runInOrder(S, self, fn, v) ==
  [S EXCEPT !.tasks = Append(@, [self |-> self, fn |-> fn, value |-> v])]

\* Executor.prototype.doResolve
ExecutorDoResolve(S, item, v) ==
  IF isFunction(item.onResolved)
    THEN runInOrder(S, item.promise, item.onResolved, v)
    ELSE doResolve(S, item.promise, v)

\* a faulty Executor.prototype.doReject: without onRejected it fulfils the promise
ExecutorDoRejectFulfils(S, item, err) ==
  IF isFunction(item.onRejected)
    THEN runInOrder(S, item.promise, item.onRejected, err)
    ELSE doResolve(S, item.promise, err)

\* Executor.prototype.doReject
ExecutorDoReject(S, item, err) ==
  IF isFunction(item.onRejected)
    THEN runInOrder(S, item.promise, item.onRejected, err)
    ELSE doReject(S, item.promise, err)

\* this.queue.forEach(function (item) { item.doResolve(value); }), from index i on
forEachDoResolve(S, self, i, v) ==
  IF i > Len(S.queue[self])
    THEN S
    ELSE forEachDoResolve(ExecutorDoResolve(S, S.queue[self][i], v), self, i + 1, v)

\* this.queue.forEach(function (item) { item.doReject(err); }), from index i on
forEachDoReject(S, self, i, err) ==
  IF i > Len(S.queue[self])
    THEN S
    ELSE forEachDoReject(ExecutorDoReject(S, S.queue[self][i], err), self, i + 1, err)

\* Promise.prototype.doResolve.  Nothing in the try block throws for the values of
\* the model (reading `then` does not throw, __callThen catches what then throws,
\* setTimeout does not throw), so the catch clause is never entered.
doResolve(S, self, v) ==
  LET thenFn == getThen(v)
      S1 == IF isFunction(thenFn)
              THEN callThen(S, self, thenFn)
              ELSE forEachDoResolve(
                     Settled([S EXCEPT !.state[self] = FULFILLED, !.value[self] = v], self),
                     self, 1, v)
  IN [S1 EXCEPT !.ret = Ref(self)]

\* Promise.prototype.doReject
doReject(S, self, err) ==
  LET S1 == forEachDoReject(
              Settled([S EXCEPT !.state[self] = REJECTED, !.value[self] = err], self),
              self, 1, err)
  IN [S1 EXCEPT !.ret = Ref(self)]

\* a faulty then: a new Executor is put at the front of the queue
thenUnshift(S, self, onResolved, onRejected) ==
  IF \/ ~isFunction(onResolved) /\ S.state[self] = FULFILLED
     \/ ~isFunction(onRejected) /\ S.state[self] = REJECTED
    THEN [S EXCEPT !.ret = Ref(self)]
    ELSE LET promise2 == Len(S.state) + 1
             S1 == newPromise(S)
         IN IF S1.state[self] # PENDING
              THEN LET dummy == IF S1.state[self] = FULFILLED THEN onResolved ELSE onRejected
                   IN [runInOrder(S1, promise2, dummy, S1.value[self])
                         EXCEPT !.ret = Ref(promise2)]
              ELSE [S1 EXCEPT
                      !.queue[self] = <<Executor(promise2, onResolved, onRejected)>> \o @,
                      !.ret = Ref(promise2)]

\* a faulty then: it never returns this
thenAlwaysNew(S, self, onResolved, onRejected) ==
  LET promise2 == Len(S.state) + 1
      S1 == newPromise(S)
  IN IF S1.state[self] # PENDING
       THEN LET dummy == IF S1.state[self] = FULFILLED THEN onResolved ELSE onRejected
            IN [runInOrder(S1, promise2, dummy, S1.value[self])
                  EXCEPT !.ret = Ref(promise2)]
       ELSE [S1 EXCEPT
               !.queue[self] = Append(@, Executor(promise2, onResolved, onRejected)),
               !.ret = Ref(promise2)]

\* a faulty then: on a settled promise it returns promise2 without dispatching
thenNoDispatch(S, self, onResolved, onRejected) ==
  IF \/ ~isFunction(onResolved) /\ S.state[self] = FULFILLED
     \/ ~isFunction(onRejected) /\ S.state[self] = REJECTED
    THEN [S EXCEPT !.ret = Ref(self)]
    ELSE LET promise2 == Len(S.state) + 1
             S1 == newPromise(S)
         IN IF S1.state[self] # PENDING
              THEN [S1 EXCEPT !.ret = Ref(promise2)]
              ELSE [S1 EXCEPT
                      !.queue[self] = Append(@, Executor(promise2, onResolved, onRejected)),
                      !.ret = Ref(promise2)]

\* Promise.prototype.then
then(S, self, onResolved, onRejected) ==
  IF \/ ~isFunction(onResolved) /\ S.state[self] = FULFILLED
     \/ ~isFunction(onRejected) /\ S.state[self] = REJECTED
    THEN [S EXCEPT !.ret = Ref(self)]
    ELSE LET promise2 == Len(S.state) + 1
             S1 == newPromise(S)
         IN IF S1.state[self] # PENDING
              THEN LET dummy == IF S1.state[self] = FULFILLED THEN onResolved ELSE onRejected
                   IN [runInOrder(S1, promise2, dummy, S1.value[self])
                         EXCEPT !.ret = Ref(promise2)]
              ELSE [S1 EXCEPT
                      !.queue[self] = Append(@, Executor(promise2, onResolved, onRejected)),
                      !.ret = Ref(promise2)]

\* Promise.prototype.catch
catch(S, self, onRejected) == then(S, self, null, onRejected)

\* Promise.prototype.done; `by` numbers the done calls
done(S, self, onFulfilled, onRejected, by) ==
  LET S1 == then(S, self, onFulfilled, onRejected)
      S2 == catch(S1, S1.ret.n, Fn("doneCatch", by, 0))
  IN [S2 EXCEPT !.ret = Undefined]

\* Promise.prototype.delay; `by` numbers the delay calls
delay(S, self, duration, by) ==
  then(S, self, Fn("delayResolved", by, duration), Fn("delayRejected", by, duration))

\* Promise.resolve
Promise_resolve(S, v) ==
  IF v.t = "promise"
    THEN [S EXCEPT !.ret = v]
    ELSE doResolve(newPromise(S), Len(S.state) + 1, v)

\* Promise.reject
Promise_reject(S, err) == doReject(newPromise(S), Len(S.state) + 1, err)

\* values.forEach(function (value) { Promise.resolve(value).then(resolve, reject); }),
\* from index i on
raceForEach(S, items, i, resolve, reject) ==
  IF i > Len(items)
    THEN S
    ELSE LET S1 == Promise_resolve(S, items[i])
         IN raceForEach(then(S1, S1.ret.n, resolve, reject), items, i + 1, resolve, reject)

\* a function of the caller that is handed (resolve, reject): the then of a thenable
\* object or the resolver given to the constructor.  It is a list of steps, run from
\* step i on; step i passes the value i:
\*   resolve : resolve(i)        reject : reject(i)        throw : throw i
\*   adopt   : resolve(q), q the promise of the caller's first Deferred
runScript(S, steps, i, resolve, reject) ==
  IF i > Len(steps)
    THEN Returned(S, Undefined)
    ELSE CASE steps[i] = "throw" -> Thrown(S, Val(i))
           [] steps[i] = "resolve" ->
                runScript(call(S, resolve, Val(i)).S, steps, i + 1, resolve, reject)
           [] steps[i] = "reject" ->
                runScript(call(S, reject, Val(i)).S, steps, i + 1, resolve, reject)
           [] steps[i] = "adopt" ->
                runScript(call(S, resolve, Ref(S.deferreds[1].promise)).S,
                          steps, i + 1, resolve, reject)

\* then(resolve, reject) in __callThen: thenFn is the wrapper getThen returned for a
\* promise or for a thenable object, the resolver of Deferred, the resolver of
\* Promise.race, a resolver of the caller, or a resolver of delay
callResolver(S, thenFn, resolve, reject) ==
  CASE thenFn.k = "then" -> Returned(then(S, thenFn.id, resolve, reject), Undefined)
    [] thenFn.k = "userThen" -> runScript(S, S.thenables[thenFn.id], 1, resolve, reject)
    [] thenFn.k = "script" -> runScript(S, thenFn.steps, 1, resolve, reject)
    [] thenFn.k = "delayResolve" ->
         Returned(setTimeout(S, resolve, thenFn.value, thenFn.duration, thenFn.by), Undefined)
    [] thenFn.k = "delayReject" ->
         Returned(setTimeout(S, reject, thenFn.value, thenFn.duration, thenFn.by), Undefined)
    [] thenFn.k = "deferred" ->
         Returned([S EXCEPT !.deferreds =
                     Append(@, [promise |-> 0,
                                _resolve |-> resolve, _reject |-> reject])], Undefined)
    [] thenFn.k = "race" ->
         IF thenFn.isArray
           THEN Returned(raceForEach(S, thenFn.items, 1, resolve, reject), Undefined)
           ELSE Thrown(S, ForEachError)

\* a faulty __callThen: what then throws always rejects, whatever `called` says
callThenThrowWins(S, self, thenFn) ==
  LET l == Len(S.latches) + 1
      S1 == [S EXCEPT !.latches = Append(@, [self |-> self, called |-> FALSE])]
      r == callResolver(S1, thenFn, Fn("resolve", l, 0), Fn("reject", l, 0))
  IN IF r.threw
       THEN doReject([r.S EXCEPT !.latches[l].called = TRUE], self, r.ret)
       ELSE r.S

\* a faulty __callThen: what then throws is dropped
callThenIgnoreThrow(S, self, thenFn) ==
  LET l == Len(S.latches) + 1
      S1 == [S EXCEPT !.latches = Append(@, [self |-> self, called |-> FALSE])]
      r == callResolver(S1, thenFn, Fn("resolve", l, 0), Fn("reject", l, 0))
  IN r.S

\* Promise.prototype.__callThen
callThen(S, self, thenFn) ==
  LET l == Len(S.latches) + 1
      S1 == [S EXCEPT !.latches = Append(@, [self |-> self, called |-> FALSE])]
      r == callResolver(S1, thenFn, Fn("resolve", l, 0), Fn("reject", l, 0))
  IN IF r.threw /\ ~r.S.latches[l].called
       THEN doReject([r.S EXCEPT !.latches[l].called = TRUE], self, r.ret)
       ELSE r.S

\* function Promise(resolver).  A constructor call that throws creates no object; the
\* TypeError it throws is left in S.ret, which is a promise after every other call.
Promise(S, resolver) ==
  IF ~isFunction(resolver)
    THEN [S EXCEPT !.ret = ResolverError]
    ELSE LET S1 == newPromise(S)
             self == Len(S.state) + 1
         IN IF resolver.k # "noop"
              THEN [callThen(S1, self, resolver) EXCEPT !.ret = Ref(self)]
              ELSE S1

\* arr.forEach(function (item, index) { Promise.resolve(item).then(onResolved, onRejected); }),
\* from index i on, in Promise.all call a
RECURSIVE allForEach(_, _, _, _)
allForEach(S, a, items, i) ==
  IF i > Len(items)
    THEN S
    ELSE LET S1 == Promise_resolve(S, items[i])
         IN allForEach(then(S1, S1.ret.n, Fn("allResolved", a, i), Fn("allRejected", a, i)),
                       a, items, i + 1)

\* Promise.all; arr is [isArray, items]
Promise_all(S, arr) ==
  LET S1 == newPromise(S)
      promise == Len(S.state) + 1
      a == Len(S.aggs) + 1
  IN IF ~arr.isArray
       THEN doReject(S1, promise, ArrayError)
       ELSE LET S2 == [S1 EXCEPT !.aggs =
                         Append(@, [promise |-> promise, arr |-> arr.items,
                                    countDone |-> 0, len |-> Len(arr.items),
                                    values |-> [i \in 1..Len(arr.items) |-> Undefined]])]
            IN [allForEach(S2, a, arr.items, 1) EXCEPT !.ret = Ref(promise)]

\* Promise.race; values is [isArray, items]
Promise_race(S, values) ==
  Promise(S, [k |-> "race", isArray |-> values.isArray, items |-> values.items])

\* function Deferred(): the resolver stores the two triggers in the new object,
\* deferreds[Len(deferreds)], and the constructor's result becomes its promise
Deferred(S) ==
  LET S1 == Promise(S, [k |-> "deferred"])
  IN [S1 EXCEPT !.deferreds[Len(S1.deferreds)].promise = S1.ret.n]

\* Deferred.prototype.resolve
Deferred_resolve(S, d, v) == call(S, S.deferreds[d]._resolve, v).S

\* Deferred.prototype.reject
Deferred_reject(S, d, reason) == call(S, S.deferreds[d]._reject, reason).S

(***************************************************************************)
(* The environment: the caller's public calls and the timer.               *)
(***************************************************************************)
\* the store at the start of a public call or timer task named c
Enter(c) == [Store EXCEPT !.ctx = c]

\* write the store back
Commit(S) ==
  /\ state' = S.state
  /\ value' = S.value
  /\ queue' = S.queue
  /\ latches' = S.latches
  /\ tasks' = S.tasks
  /\ timers' = S.timers
  /\ thenables' = S.thenables
  /\ uncaught' = S.uncaught
  /\ aggs' = S.aggs
  /\ deferreds' = S.deferreds
  /\ log' = S.log
  /\ settled' = S.settled

\* every promise object of the heap; the caller holds only those in `known`
Promises == 1..Len(state)
PlainValues == {Val(n) : n \in 1..MaxValue}
\* what the caller passes where a value is expected
Values == PlainValues \cup {Ref(p) : p \in known}
\* what the caller puts in an array handed to Promise.all / Promise.race
Items == {Val(1)} \cup {Ref(p) : p \in known}
\* what the caller hands to Promise.all / Promise.race: an array, or a value that is none
Arrays ==
  {[isArray |-> FALSE, items |-> <<>>]}
    \cup {[isArray |-> TRUE, items |-> s] : s \in UNION {[1..n -> Items] : n \in 0..MaxItems}}
\* the handlers the caller passes to then
HandlerKinds == {"none", "id", "throw"}
Handler(k, r, ix) == IF k = "none" THEN null ELSE Fn(k, r, ix)

\* what a function of the caller does with (resolve, reject): up to MaxSteps steps;
\* nothing runs after a throw
StepKinds == {"resolve", "reject", "adopt", "throw"}
Scripts ==
  {s \in UNION {[1..n -> StepKinds] : n \in 0..MaxSteps} :
     \A i \in 1..(Len(s) - 1) : s[i] # "throw"}

Spend ==
  /\ budget > 0
  /\ budget' = budget - 1

\* Promise.deferred()
DeferredCall ==
  /\ Spend
  /\ LET S == Deferred(Enter("deferred"))
     IN Commit(S) /\ known' = known \cup {S.ret.n}
  /\ UNCHANGED <<regs, calls, races, ops, now>>

\* deferred.resolve(v)
DeferredResolveCall ==
  \E d \in 1..Len(deferreds), v \in Values :
    /\ Spend
    /\ Commit(Deferred_resolve(Enter("trigger"), d, v))
    /\ UNCHANGED known
    /\ calls' = Append(calls, [d |-> d, k |-> "resolve", v |-> v])
    /\ UNCHANGED <<regs, races, ops, now>>

\* deferred.reject(reason)
DeferredRejectCall ==
  \E d \in 1..Len(deferreds), v \in PlainValues :
    /\ Spend
    /\ Commit(Deferred_reject(Enter("trigger"), d, v))
    /\ UNCHANGED known
    /\ calls' = Append(calls, [d |-> d, k |-> "reject", v |-> v])
    /\ UNCHANGED <<regs, races, ops, now>>

\* p.then(onResolved, onRejected), and p.catch(onRejected) when onResolved is null
ThenCall ==
  \E p \in known, kf \in HandlerKinds, kr \in HandlerKinds :
    LET r == Len(regs) + 1
        onResolved == Handler(kf, r, 1)
        onRejected == Handler(kr, r, 2)
        S == then(Enter("then"), p, onResolved, onRejected)
    IN /\ Spend
       /\ Commit(S)
       /\ known' = known \cup {S.ret.n}
       /\ regs' = Append(regs, [p |-> p, onResolved |-> onResolved,
                                onRejected |-> onRejected,
                                before |-> state[p], ret |-> S.ret.n])
       /\ UNCHANGED <<calls, races, ops, now>>

\* var p2 = p.then(onResolved, onRejected), with handlers that may return p2
SelfKinds == {"none", "id", "self"}
ThenSelfCall ==
  \E p \in known, kf \in SelfKinds, kr \in SelfKinds :
    LET r == Len(regs) + 1
        onResolved == Handler(kf, r, 1)
        onRejected == Handler(kr, r, 2)
        S == then(Enter("then"), p, onResolved, onRejected)
    IN /\ Spend
       /\ Commit(S)
       /\ known' = known \cup {S.ret.n}
       /\ regs' = Append(regs, [p |-> p, onResolved |-> onResolved,
                                onRejected |-> onRejected,
                                before |-> state[p], ret |-> S.ret.n])
       /\ UNCHANGED <<calls, races, ops, now>>

\* p.doResolve(v), called on a promise by the caller
DoResolveCall ==
  \E p \in known, v \in Values :
    /\ Spend
    /\ Commit(doResolve(Enter("primitive"), p, v))
    /\ ops' = Append(ops, [op |-> "doResolve", p |-> p, v |-> v, before |-> state[p]])
    /\ UNCHANGED <<known, regs, calls, races, now>>

\* p.doReject(err), called on a promise by the caller
DoRejectCall ==
  \E p \in known, err \in PlainValues :
    /\ Spend
    /\ Commit(doReject(Enter("primitive"), p, err))
    /\ ops' = Append(ops, [op |-> "doReject", p |-> p, v |-> err, before |-> state[p]])
    /\ UNCHANGED <<known, regs, calls, races, now>>

\* p.done(onFulfilled, onRejected); the history keeps the promise then returned to done
DoneCall ==
  \E p \in known, kf \in HandlerKinds, kr \in HandlerKinds :
    LET r == Len(regs) + 1
        by == Len(ops) + 1
        onFulfilled == Handler(kf, r, 1)
        onRejected == Handler(kr, r, 2)
        chain == then(Enter("done"), p, onFulfilled, onRejected).ret.n
        S == done(Enter("done"), p, onFulfilled, onRejected, by)
    IN /\ Spend
       /\ Commit(S)
       /\ regs' = Append(regs, [p |-> p, onResolved |-> onFulfilled,
                                onRejected |-> onRejected,
                                before |-> state[p], ret |-> chain])
       /\ ops' = Append(ops, [op |-> "done", p |-> p, chain |-> chain, ret |-> S.ret])
       /\ UNCHANGED <<known, calls, races, now>>

\* Promise.resolve(v)
ResolveCall ==
  \E v \in Values :
    /\ Spend
    /\ LET S == Promise_resolve(Enter("static"), v)
       IN Commit(S) /\ known' = known \cup {S.ret.n}
    /\ UNCHANGED <<regs, calls, races, ops, now>>

\* Promise.reject(v)
RejectCall ==
  \E v \in PlainValues :
    /\ Spend
    /\ LET S == Promise_reject(Enter("static"), v)
       IN Commit(S) /\ known' = known \cup {S.ret.n}
    /\ UNCHANGED <<regs, calls, races, ops, now>>

\* Promise.all(arr)
AllCall ==
  \E arr \in Arrays :
    /\ Spend
    /\ LET S == Promise_all(Enter("combine"), arr)
       IN Commit(S) /\ known' = known \cup {S.ret.n}
    /\ UNCHANGED <<regs, calls, races, ops, now>>

\* var t = { then: function (resolve, reject) { ...steps... } }; Promise.resolve(t)
AdoptCall ==
  \E steps \in Scripts :
    LET n == Len(thenables) + 1
        S == Promise_resolve([Enter("static") EXCEPT !.thenables = Append(@, steps)],
                             Thenable(n))
    IN /\ Spend
       /\ Commit(S)
       /\ known' = known \cup {S.ret.n}
       /\ ops' = Append(ops, [op |-> "adopt", p |-> S.ret.n, steps |-> steps])
       /\ UNCHANGED <<regs, calls, races, now>>

\* the resolvers the caller hands to the constructor: functions, and a value that is none
Resolvers == {[k |-> "script", steps |-> s] : s \in Scripts} \cup {null}

\* new Promise(resolver)
NewCall ==
  \E resolver \in Resolvers :
    LET S == Promise(Enter("new"), resolver)
    IN /\ Spend
       /\ Commit(S)
       /\ known' = known \cup (IF S.ret.t = "promise" THEN {S.ret.n} ELSE {})
       /\ ops' = Append(ops, [op |-> "new", resolver |-> resolver, ret |-> S.ret])
       /\ UNCHANGED <<regs, calls, races, now>>

\* the promise Promise.resolve(item) yields, as it is when Promise.race looks at it
RaceItem(item) ==
  IF item.t = "promise"
    THEN [p |-> item.n, state |-> state[item.n], value |-> value[item.n]]
    ELSE [p |-> 0, state |-> FULFILLED, value |-> item]

\* Promise.race(values)
RaceCall ==
  \E arr \in Arrays :
    LET S == Promise_race(Enter("combine"), arr)
    IN /\ Spend
       /\ Commit(S)
       /\ known' = known \cup {S.ret.n}
       /\ races' = Append(races, [promise |-> S.ret.n,
                                  items |-> [i \in 1..Len(arr.items) |-> RaceItem(arr.items[i])],
                                  at |-> Len(settled')])
       /\ UNCHANGED <<regs, calls, ops, now>>

\* a callback handed to setTimeout runs: one of __runInOrder or one of done
runCallback(S, t) ==
  IF t.fn.k = "rethrow"
    THEN rethrow(S, t.fn.id, t.value)
    ELSE timerCallback(S, t.self, t.fn, t.value)

\* the timer fires: the oldest callback handed to setTimeout runs
RunTask ==
  /\ tasks # <<>>
  /\ Commit(runCallback([Enter("task") EXCEPT !.tasks = Tail(@)], Head(tasks)))
  /\ UNCHANGED <<budget, known, regs, calls, races, ops, now>>

\* the durations the caller passes to delay
Durations == 1..MaxDelay

\* p.delay(duration)
DelayCall ==
  \E p \in known, duration \in Durations :
    LET by == Len(ops) + 1
        S == delay(Enter("delay"), p, duration, by)
    IN /\ Spend
       /\ Commit(S)
       /\ known' = known \cup {S.ret.n}
       /\ ops' = Append(ops, [op |-> "delay", p |-> p, duration |-> duration,
                               ret |-> S.ret.n, at |-> now])
       /\ UNCHANGED <<regs, calls, races, now>>

\* timer i is the next to fire: it is due, and no timer is due before it or was set
\* before it for the same time
NextTimer(i) ==
  /\ ~timers[i].fired
  /\ timers[i].due <= now
  /\ \A j \in DOMAIN timers :
       ~timers[j].fired /\ j # i =>
         \/ timers[i].due < timers[j].due
         \/ timers[i].due = timers[j].due /\ i < j

\* a timer set with a duration fires: its callback calls fn(value)
FireTimer ==
  \E i \in DOMAIN timers :
    /\ NextTimer(i)
    /\ Commit(call([Enter("timer") EXCEPT !.timers[i].fired = TRUE],
                    timers[i].fn, timers[i].value).S)
    /\ UNCHANGED <<budget, known, regs, calls, races, ops, now>>

\* time passes
Tick ==
  /\ now < MaxTime
  /\ now' = now + 1
  /\ UNCHANGED <<state, value, queue, latches, tasks, timers, thenables, uncaught,
                 aggs, deferreds, budget, known, log, regs, settled, calls, races, ops>>

\* the heap before the program has run
EmptyStore ==
  [state |-> <<>>, value |-> <<>>, queue |-> <<>>, latches |-> <<>>, tasks |-> <<>>,
   timers |-> <<>>, now |-> 0, thenables |-> <<>>, uncaught |-> <<>>,
   aggs |-> <<>>, deferreds |-> <<>>, log |-> <<>>, regs |-> <<>>, settled |-> <<>>,
   ctx |-> "init", ret |-> Undefined]

\* the heap S with the promises ps in the caller's hands, and no history of later calls
Load(S, ps) ==
  /\ known = ps
  /\ state = S.state
  /\ value = S.value
  /\ queue = S.queue
  /\ latches = S.latches
  /\ tasks = S.tasks
  /\ timers = S.timers
  /\ now = S.now
  /\ thenables = S.thenables
  /\ uncaught = S.uncaught
  /\ aggs = S.aggs
  /\ deferreds = S.deferreds
  /\ log = S.log
  /\ settled = S.settled
  /\ regs = <<>>
  /\ calls = <<>>
  /\ races = <<>>
  /\ ops = <<>>

(***************************************************************************)
(* SpecTrigger: Deferred handles, their triggers, and the promises of      *)
(* Promise.resolve / Promise.reject as values handed to a trigger.  It     *)
(* starts after two calls of Promise.deferred().                           *)
(***************************************************************************)
InitTrigger ==
  /\ Load(Deferred(Deferred(EmptyStore)), {1, 2})
  /\ budget = TriggerCalls

NextTrigger ==
  \/ DeferredCall
  \/ DeferredResolveCall
  \/ DeferredRejectCall
  \/ ResolveCall
  \/ RejectCall
  \/ RunTask

SpecTrigger == InitTrigger /\ [][NextTrigger]_vars

(***************************************************************************)
(* SpecThen: then on pending and settled promises.  It starts after one    *)
(* call of Promise.deferred().                                             *)
(***************************************************************************)
InitThen ==
  /\ Load(Deferred(EmptyStore), {1})
  /\ budget = ThenCalls

NextThen ==
  \/ DeferredResolveCall
  \/ DeferredRejectCall
  \/ ThenCall
  \/ RunTask

SpecThen == InitThen /\ [][NextThen]_vars

(***************************************************************************)
(* SpecChain: the calls of SpecThen under a fair scheduler: a callback     *)
(* handed to setTimeout is run in the end.  It starts after one call of    *)
(* Promise.deferred().                                                     *)
(***************************************************************************)
InitChain ==
  /\ Load(Deferred(EmptyStore), {1})
  /\ budget = ChainCalls

NextChain ==
  \/ DeferredResolveCall
  \/ DeferredRejectCall
  \/ ThenCall
  \/ RunTask

SpecChain == InitChain /\ [][NextChain]_vars /\ WF_vars(RunTask)

(***************************************************************************)
(* SpecAll: Promise.all.  It starts after r1 = Promise.reject(1),          *)
(* r2 = Promise.reject(2), Promise.deferred() and Promise.all([r1, r2]),   *)
(* before any timer task has run.                                          *)
(***************************************************************************)
InitAll ==
  /\ Load(Promise_all(
            Deferred(Promise_reject(Promise_reject(EmptyStore, Val(1)), Val(2))),
            [isArray |-> TRUE, items |-> <<Ref(1), Ref(2)>>]),
          {1, 2, 3, 4})
  /\ budget = AllCalls

NextAll ==
  \/ AllCall
  \/ ThenCall
  \/ RunTask

SpecAll == InitAll /\ [][NextAll]_vars

(***************************************************************************)
(* SpecRace: Promise.race.  It starts after two calls of                   *)
(* Promise.deferred().                                                     *)
(***************************************************************************)
InitRace ==
  /\ Load(Deferred(Deferred(EmptyStore)), {1, 2})
  /\ budget = RaceCalls

NextRace ==
  \/ DeferredResolveCall
  \/ DeferredRejectCall
  \/ RaceCall
  \/ RunTask

SpecRace == InitRace /\ [][NextRace]_vars

(***************************************************************************)
(* SpecAdopt: promises resolved with thenable objects of the caller.  It   *)
(* starts after one call of Promise.deferred(); its promise is the one a   *)
(* thenable may pass on to resolve.                                        *)
(***************************************************************************)
InitAdopt ==
  /\ Load(Deferred(EmptyStore), {1})
  /\ budget = AdoptCalls

NextAdopt ==
  \/ AdoptCall
  \/ DeferredResolveCall
  \/ DeferredRejectCall
  \/ RunTask

SpecAdopt == InitAdopt /\ [][NextAdopt]_vars

(***************************************************************************)
(* SpecResolver: the constructor called with resolvers of the caller.  It  *)
(* starts after one call of Promise.deferred(); its promise is the one a   *)
(* resolver may pass on to resolve.                                        *)
(***************************************************************************)
InitResolver ==
  /\ Load(Deferred(EmptyStore), {1})
  /\ budget = ResolverCalls

NextResolver ==
  \/ NewCall
  \/ DeferredResolveCall
  \/ DeferredRejectCall
  \/ RunTask

SpecResolver == InitResolver /\ [][NextResolver]_vars

(***************************************************************************)
(* SpecDelay: delay on pending and settled promises, with the clock and    *)
(* the timers.  It starts after Promise.resolve(1), Promise.reject(2) and  *)
(* Promise.deferred().                                                     *)
(***************************************************************************)
InitDelay ==
  /\ Load(Deferred(Promise_reject(Promise_resolve(EmptyStore, Val(1)), Val(2))), {1, 2, 3})
  /\ budget = DelayCalls

NextDelay ==
  \/ DelayCall
  \/ DeferredResolveCall
  \/ DeferredRejectCall
  \/ RunTask
  \/ FireTimer
  \/ Tick

SpecDelay == InitDelay /\ [][NextDelay]_vars

(***************************************************************************)
(* SpecSelf: then with handlers that return the promise then returned.  It *)
(* starts after one call of Promise.deferred().                            *)
(***************************************************************************)
InitSelf ==
  /\ Load(Deferred(EmptyStore), {1})
  /\ budget = SelfCalls

NextSelf ==
  \/ DeferredResolveCall
  \/ DeferredRejectCall
  \/ ThenSelfCall
  \/ RunTask

SpecSelf == InitSelf /\ [][NextSelf]_vars

(***************************************************************************)
(* SpecPrimitive: doResolve and doReject called on a promise directly,     *)
(* with then calls that fill its queue.  It starts after one call of       *)
(* Promise.deferred().                                                     *)
(***************************************************************************)
InitPrimitive ==
  /\ Load(Deferred(EmptyStore), {1})
  /\ budget = PrimitiveCalls

NextPrimitive ==
  \/ DoResolveCall
  \/ DoRejectCall
  \/ ThenCall
  \/ RunTask

SpecPrimitive == InitPrimitive /\ [][NextPrimitive]_vars

(***************************************************************************)
(* SpecDone: done on pending and settled promises.  It starts where        *)
(* SpecAll starts: after r1 = Promise.reject(1), r2 = Promise.reject(2),   *)
(* Promise.deferred() and Promise.all([r1, r2]), before any timer task has *)
(* run.                                                                    *)
(***************************************************************************)
InitDone ==
  /\ Load(Promise_all(
            Deferred(Promise_reject(Promise_reject(EmptyStore, Val(1)), Val(2))),
            [isArray |-> TRUE, items |-> <<Ref(1), Ref(2)>>]),
          {1, 2, 3, 4})
  /\ budget = DoneCalls

NextDone ==
  \/ DoneCall
  \/ DeferredResolveCall
  \/ DeferredRejectCall
  \/ RunTask

SpecDone == InitDone /\ [][NextDone]_vars

(***************************************************************************)
(* Reading the history.                                                    *)
(***************************************************************************)
\* how often promise p has been assigned a non-pending state
SettleCount(p) == Cardinality({i \in DOMAIN settled : settled[i].p = p})
\* the first assignment of a non-pending state to a promise of ps
FirstSettleOf(ps) ==
  settled[CHOOSE i \in DOMAIN settled :
            /\ settled[i].p \in ps
            /\ \A j \in DOMAIN settled : settled[j].p \in ps => i <= j]
\* how often a handler of the caller's then call r has been invoked
InvokeCount(r) == Cardinality({i \in DOMAIN log : log[i].reg = r})
\* the trigger calls made on Deferred d
CallsOf(d) == {i \in DOMAIN calls : calls[i].d = d}
FirstCallOf(d) == calls[CHOOSE i \in CallsOf(d) : \A j \in CallsOf(d) : i <= j]

(***************************************************************************)
(* C1  Exactly-once settlement: once a promise is FULFILLED or REJECTED,   *)
(* no step changes its state or its value.                                 *)
(***************************************************************************)
C1_ExactlyOnce ==
  [][\A p \in DOMAIN state :
       state[p] # PENDING => state'[p] = state[p] /\ value'[p] = value[p]]_vars

(***************************************************************************)
(* C2  Every invocation of a handler passed to then happens inside a timer *)
(* task: never inside the then call, never inside the call that settles.   *)
(***************************************************************************)
C2_HandlersOnlyInTasks == \A i \in DOMAIN log : log[i].ctx = "task"

\* a handler registered on a pending promise and one registered on a settled
\* promise have both been invoked
C2_Witness ==
  \E i, j \in DOMAIN log :
    /\ regs[log[i].reg].before = PENDING
    /\ regs[log[j].reg].before # PENDING

(***************************************************************************)
(* C3  For every then call made on a pending promise, at most one of its   *)
(* two handlers is invoked, and at most once.                              *)
(***************************************************************************)
C3_DispatchedOnce ==
  \A r \in DOMAIN regs : regs[r].before = PENDING => InvokeCount(r) <= 1

\* what the first trigger call on a Deferred makes of its promise
C4_Outcome ==
  \A d \in DOMAIN deferreds :
    CallsOf(d) # {} =>
      LET c == FirstCallOf(d)
          p == deferreds[d].promise
      IN /\ SettleCount(p) <= 1
         /\ c.k = "reject" => state[p] = REJECTED /\ value[p] = c.v
         /\ c.k = "resolve" /\ c.v.t # "promise" => state[p] = FULFILLED /\ value[p] = c.v
         /\ c.k = "resolve" /\ c.v.t = "promise" /\ state[p] # PENDING =>
              \E i \in DOMAIN settled :
                /\ settled[i].p = c.v.n
                /\ settled[i].state = state[p]
                /\ settled[i].value = value[p]
         /\ c.k = "resolve" /\ c.v.t = "promise" /\ c.v.n # p
              /\ state[c.v.n] # PENDING /\ tasks = <<>> =>
              state[p] = state[c.v.n] /\ value[p] = value[c.v.n]

\* a trigger call on a Deferred that has been triggered before changes nothing
C4_LaterCalls ==
  \A d \in DOMAIN deferreds :
    CallsOf(d) # {} /\ Len(calls') = Len(calls) + 1 /\ calls'[Len(calls')].d = d =>
      UNCHANGED <<state, value, queue, latches, tasks, settled>>

(***************************************************************************)
(* C4  First call wins: the first call of a Deferred's triggers decides    *)
(* the promise's state and value, the promise is assigned a state at most  *)
(* once, and every later trigger call changes nothing.                     *)
(***************************************************************************)
C4_FirstCallWins == []C4_Outcome /\ [][C4_LaterCalls]_vars

\* a Deferred first resolved with a promise that was still pending, then rejected,
\* whose promise has since been fulfilled
C4_Witness ==
  \E d \in DOMAIN deferreds :
    /\ Cardinality(CallsOf(d)) >= 2
    /\ FirstCallOf(d).k = "resolve"
    /\ FirstCallOf(d).v.t = "promise"
    /\ \E i \in CallsOf(d) : calls[i].k = "reject"
    /\ state[deferreds[d].promise] = FULFILLED

(***************************************************************************)
(* C5  A promise whose resolve trigger is called with the promise itself   *)
(* is REJECTED with a TypeError once no timer task is left to run.         *)
(***************************************************************************)
C5_SelfResolveRejected ==
  \A d \in DOMAIN deferreds :
    (/\ CallsOf(d) # {}
     /\ FirstCallOf(d).k = "resolve"
     /\ FirstCallOf(d).v = Ref(deferreds[d].promise)
     /\ tasks = <<>>)
      => state[deferreds[d].promise] = REJECTED /\ value[deferreds[d].promise] = SelfError

(***************************************************************************)
(* C6  The promise Promise.all returns for an empty array is FULFILLED     *)
(* (with the empty array) once no timer task is left to run.               *)
(***************************************************************************)
C6_AllEmptyFulfilled ==
  \A a \in DOMAIN aggs :
    aggs[a].len = 0 /\ tasks = <<>> =>
      state[aggs[a].promise] = FULFILLED /\ value[aggs[a].promise] = Arr(a)

(***************************************************************************)
(* C7  Promise.all, first failure wins: a REJECTED aggregate holds the     *)
(* reason of the first failure that reached it and has been assigned a     *)
(* state only once (so its waiters were dispatched only once).             *)
(***************************************************************************)
C7_FirstFailureWins ==
  \A a \in DOMAIN aggs :
    state[aggs[a].promise] = REJECTED =>
      /\ value[aggs[a].promise] = FirstSettleOf({aggs[a].promise}).value
      /\ SettleCount(aggs[a].promise) = 1

\* item of the array handed to Promise.all is fulfilled, and was fulfilled with v
ItemFulfilledWith(item, v) ==
  IF item.t = "promise"
    THEN /\ state[item.n] = FULFILLED
         /\ \E j \in DOMAIN settled :
              settled[j] = [p |-> item.n, state |-> FULFILLED, value |-> v]
    ELSE item = v

(***************************************************************************)
(* C8  Promise.all, result order: an aggregate is FULFILLED only when      *)
(* every item is fulfilled, and then values[i] is a value item i was       *)
(* fulfilled with.                                                         *)
(***************************************************************************)
C8_AllResultOrder ==
  \A a \in DOMAIN aggs :
    aggs[a].len > 0 /\ state[aggs[a].promise] = FULFILLED =>
      /\ value[aggs[a].promise] = Arr(a)
      /\ \A i \in 1..aggs[a].len : ItemFulfilledWith(aggs[a].arr[i], aggs[a].values[i])

\* the promises among the items of Promise.race call r (0 stands for an item that is
\* no promise, which Promise.resolve wraps in a new, fulfilled promise)
RaceItems(r) == {races[r].items[i].p : i \in DOMAIN races[r].items}

(***************************************************************************)
(* C9  Promise.race.  As claimed: the aggregate takes the state and value  *)
(* of the item that was settled first.                                     *)
(***************************************************************************)
C9_RaceFirstSettled ==
  \A r \in DOMAIN races :
    (/\ Len(races[r].items) > 0
     /\ 0 \notin RaceItems(r)
     /\ state[races[r].promise] # PENDING)
      => /\ state[races[r].promise] = FirstSettleOf(RaceItems(r)).state
         /\ value[races[r].promise] = FirstSettleOf(RaceItems(r)).value

\* the items settled when race was called, the later settlements of items, and the
\* item whose settlement is dispatched to the aggregate first
SettledAtCall(r) == {i \in DOMAIN races[r].items : races[r].items[i].state # PENDING}
SettledLater(r) ==
  {j \in DOMAIN settled : j > races[r].at /\ settled[j].p \in RaceItems(r) \ {0}}
Min(I) == CHOOSE i \in I : \A j \in I : i <= j
RaceWinner(r) ==
  IF SettledAtCall(r) # {}
    THEN races[r].items[Min(SettledAtCall(r))]
    ELSE settled[Min(SettledLater(r))]

(***************************************************************************)
(* C9 as amended: the aggregate takes the state and value of the item      *)
(* whose settlement is dispatched to it first: the lowest-index item among *)
(* those already settled when race is called, or, when none is, the item   *)
(* that is settled first after the call.  It is assigned a state once.     *)
(***************************************************************************)
C9_RaceFirstDispatched ==
  \A r \in DOMAIN races :
    Len(races[r].items) > 0 =>
      /\ SettleCount(races[r].promise) <= 1
      /\ state[races[r].promise] # PENDING =>
           /\ SettledAtCall(r) # {} \/ SettledLater(r) # {}
           /\ state[races[r].promise] = RaceWinner(r).state
           /\ value[races[r].promise] = RaceWinner(r).value

\* a settled aggregate of two promises, both settled, with different outcomes
C9_Witness ==
  \E r \in DOMAIN races :
    /\ Len(races[r].items) = 2
    /\ 0 \notin RaceItems(r)
    /\ state[races[r].promise] # PENDING
    /\ \A p \in RaceItems(r) : state[p] # PENDING
    /\ \E p, q \in RaceItems(r) : value[p] # value[q]

\* the handler then call r was given for outcome ix (1 fulfilled, 2 rejected)
HandlerOf(r, ix) == IF ix = 1 THEN regs[r].onResolved ELSE regs[r].onRejected

(***************************************************************************)
(* C10 Registration order: of two then calls made on the same pending      *)
(* promise, a handler of the second is invoked only after the handler of   *)
(* the first for the same outcome (if the first passed one) was invoked.   *)
(***************************************************************************)
C10_RegistrationOrder ==
  \A r1, r2 \in DOMAIN regs :
    (/\ r1 < r2
     /\ regs[r1].p = regs[r2].p
     /\ regs[r1].before = PENDING
     /\ regs[r2].before = PENDING)
      => \A j \in DOMAIN log :
           log[j].reg = r2 /\ isFunction(HandlerOf(r1, log[j].ix)) =>
             \E i \in 1..(j - 1) : log[i].reg = r1 /\ log[i].ix = log[j].ix

\* two then calls on the same pending promise, and a handler of each has been invoked
C10_Witness ==
  \E r1, r2 \in DOMAIN regs :
    /\ r1 < r2
    /\ regs[r1].p = regs[r2].p
    /\ regs[r1].before = PENDING
    /\ regs[r2].before = PENDING
    /\ InvokeCount(r1) > 0
    /\ InvokeCount(r2) > 0

\* the calls of kind op among the caller's other public calls
Ops(op) == {i \in DOMAIN ops : ops[i].op = op}

\* promise p has the outcome of promise q: it was assigned a state at most once, a
\* state and value q was assigned, and it is settled once q is and no task is left
Follows(p, q) ==
  /\ SettleCount(p) <= 1
  /\ state[p] # PENDING =>
       \E i \in DOMAIN settled :
         /\ settled[i].p = q
         /\ settled[i].state = state[p]
         /\ settled[i].value = value[p]
  /\ state[q] # PENDING /\ tasks = <<>> => state[p] = state[q] /\ value[p] = value[q]

(***************************************************************************)
(* C11 Single-effect adoption: the promise resolved with a thenable has    *)
(* the outcome of the thenable's first step alone (resolve(v): FULFILLED   *)
(* v, or v's outcome if v is a promise; reject(e) or a throw: REJECTED e;  *)
(* no step: PENDING) and is assigned a state at most once, whatever steps  *)
(* follow.                                                                 *)
(***************************************************************************)
C11_FirstCallbackWins ==
  \A i \in Ops("adopt") :
    LET p == ops[i].p
        steps == ops[i].steps
    IN /\ SettleCount(p) <= 1
       /\ steps = <<>> => state[p] = PENDING
       /\ steps # <<>> /\ steps[1] = "resolve" => state[p] = FULFILLED /\ value[p] = Val(1)
       /\ steps # <<>> /\ steps[1] \in {"reject", "throw"} =>
            state[p] = REJECTED /\ value[p] = Val(1)
       /\ steps # <<>> /\ steps[1] = "adopt" => Follows(p, deferreds[1].promise)

\* a thenable whose then passed a pending promise to resolve and then called reject;
\* that promise has been fulfilled since, and so has the adopting promise
C11_Witness ==
  \E i \in Ops("adopt") :
    /\ ops[i].steps = <<"adopt", "reject">>
    /\ state[ops[i].p] = FULFILLED

\* the constructor calls whose resolver threw at its last step
ThrowingNew == {i \in Ops("new") : isFunction(ops[i].resolver)
                                    /\ ops[i].resolver.steps # <<>>
                                    /\ ops[i].resolver.steps[Len(ops[i].resolver.steps)] = "throw"}
\* the steps the resolver of constructor call i took before it threw
BeforeThrow(i) == SubSeq(ops[i].resolver.steps, 1, Len(ops[i].resolver.steps) - 1)
\* whether the promise was still PENDING when the resolver threw: resolve(v) and
\* reject(e) settle it at once, resolve(q) for a promise q leaves it PENDING
PendingAtThrow(i) == \A j \in DOMAIN BeforeThrow(i) : BeforeThrow(i)[j] = "adopt"

(***************************************************************************)
(* C17 Resolver failure.  As claimed: a resolver that throws e while the   *)
(* promise is still PENDING makes the promise REJECTED with e; a resolver  *)
(* that throws after the promise was settled is ignored and the            *)
(* constructor returns the promise.                                        *)
(***************************************************************************)
C17_ThrowWhilePending ==
  \A i \in ThrowingNew :
    /\ ops[i].ret.t = "promise"
    /\ PendingAtThrow(i) =>
         /\ state[ops[i].ret.n] = REJECTED
         /\ value[ops[i].ret.n] = Val(Len(ops[i].resolver.steps))

(***************************************************************************)
(* C17 as amended: a resolver that throws e before it has called resolve   *)
(* or reject makes the promise REJECTED with e; a throw after such a call  *)
(* is ignored, even if the promise is still PENDING (resolve was handed a  *)
(* promise): the constructor returns the promise and the promise has the   *)
(* outcome of the first call alone.                                        *)
(***************************************************************************)
C17_ThrowBeforeFirstCall ==
  \A i \in ThrowingNew :
    LET steps == ops[i].resolver.steps
        p == ops[i].ret.n
    IN /\ ops[i].ret.t = "promise"
       /\ SettleCount(p) <= 1
       /\ steps[1] = "throw" => state[p] = REJECTED /\ value[p] = Val(1)
       /\ steps[1] = "resolve" => state[p] = FULFILLED /\ value[p] = Val(1)
       /\ steps[1] = "reject" => state[p] = REJECTED /\ value[p] = Val(1)
       /\ steps[1] = "adopt" => Follows(p, deferreds[1].promise)

\* a resolver that threw at once, and one that passed a pending promise to resolve and
\* then threw
C17_Witness ==
  /\ \E i \in ThrowingNew : ops[i].resolver.steps = <<"throw">>
  /\ \E i \in ThrowingNew :
       /\ ops[i].resolver.steps = <<"adopt", "throw">>
       /\ state[ops[i].ret.n] = PENDING

\* the last handler invocation, in a step that invoked a handler
Invocation == log'[Len(log')]

(***************************************************************************)
(* C12 Handler failure isolation: in the step in which a handler passed to *)
(* then throws e, the promise that then call returned becomes REJECTED     *)
(* with e, nothing is thrown out of the timer callback, and the state and  *)
(* value of the promise then was called on do not change.                  *)
(***************************************************************************)
C12_HandlerThrowIsolated ==
  [][Len(log') = Len(log) + 1 /\ HandlerOf(Invocation.reg, Invocation.ix).k = "throw" =>
       LET r == regs[Invocation.reg]
       IN /\ state'[r.ret] = REJECTED
          /\ value'[r.ret] = Invocation.arg
          /\ state'[r.p] = state[r.p]
          /\ value'[r.p] = value[r.p]
          /\ uncaught' = uncaught]_vars

\* a handler has thrown on a fulfilled promise and one on a rejected promise
C12_Witness ==
  \E i, j \in DOMAIN log :
    /\ HandlerOf(log[i].reg, log[i].ix).k = "throw"
    /\ HandlerOf(log[j].reg, log[j].ix).k = "throw"
    /\ log[i].ix = 1
    /\ log[j].ix = 2
    /\ state[regs[log[i].reg].ret] = REJECTED
    /\ state[regs[log[j].reg].ret] = REJECTED

\* then call r was made on a pending promise that has settled since, and it was given
\* no callable handler for that outcome
PassesThrough(r) ==
  /\ regs[r].before = PENDING
  /\ state[regs[r].p] # PENDING
  /\ ~isFunction(HandlerOf(r, state[regs[r].p]))

(***************************************************************************)
(* C13 Pass-through: when a then call was made on a pending promise p and  *)
(* has no callable handler for p's outcome, the promise it returned has    *)
(* p's state and p's value as soon as p is settled.                        *)
(***************************************************************************)
C13_PassThrough ==
  \A r \in DOMAIN regs :
    PassesThrough(r) =>
      /\ state[regs[r].ret] = state[regs[r].p]
      /\ value[regs[r].ret] = value[regs[r].p]

\* a rejection has passed through a chain of two then calls without onRejected, the
\* first of them with an onResolved
C13_Witness ==
  \E r1, r2 \in DOMAIN regs :
    /\ regs[r2].p = regs[r1].ret
    /\ PassesThrough(r1)
    /\ PassesThrough(r2)
    /\ isFunction(regs[r1].onResolved)
    /\ state[regs[r2].ret] = REJECTED

\* the timers the handlers of delay call i have set, and those of them that have fired
TimersOf(i) == {t \in DOMAIN timers : timers[t].by = i}
FiredOf(i) == {t \in TimersOf(i) : timers[t].fired}

(***************************************************************************)
(* C14 delay: the promise p.delay(d) returns is PENDING until a timer of   *)
(* duration d, set after the call, has fired (so not before d has passed   *)
(* since the call); when it is settled it has p's state and p's value, and *)
(* it is settled once the timer has fired and no timer task is left.       *)
(***************************************************************************)
C14_DelayKeepsOutcome ==
  \A i \in Ops("delay") :
    LET p == ops[i].p
        ret == ops[i].ret
    IN /\ \A t \in TimersOf(i) : timers[t].due >= ops[i].at + ops[i].duration
       /\ state[ret] # PENDING =>
            /\ FiredOf(i) # {}
            /\ now >= ops[i].at + ops[i].duration
            /\ state[ret] = state[p]
            /\ value[ret] = value[p]
       /\ FiredOf(i) # {} /\ tasks = <<>> => state[ret] = state[p] /\ state[ret] # PENDING

\* a delay of a fulfilled promise and a delay of a rejected promise have both settled
C14_Witness ==
  \E i, j \in Ops("delay") :
    /\ state[ops[i].ret] = FULFILLED
    /\ state[ops[j].ret] = REJECTED

\* the invocations of handlers that return the promise their then call returned
SelfReturns == {i \in DOMAIN log : HandlerOf(log[i].reg, log[i].ix).k = "self"}

(***************************************************************************)
(* C15 Self-resolution through a handler: once a handler has returned the  *)
(* promise its own then call returned, that promise is REJECTED with the   *)
(* TypeError 'Cannot resolve promise with itself.'                         *)
(***************************************************************************)
C15_SelfReturnRejected ==
  \A i \in SelfReturns :
    /\ state[regs[log[i].reg].ret] = REJECTED
    /\ value[regs[log[i].reg].ret] = SelfError

\* such a handler has run as onResolved of a then call made on a pending promise, and
\* one as onRejected of a then call made on a rejected promise
C15_Witness ==
  \E i, j \in SelfReturns :
    /\ log[i].ix = 1
    /\ regs[log[i].reg].before = PENDING
    /\ log[j].ix = 2
    /\ regs[log[j].reg].before = REJECTED

(***************************************************************************)
(* C16 Guarded primitives: a call of doResolve or doReject on a promise    *)
(* that is already FULFILLED or REJECTED changes no promise's state or     *)
(* value and schedules no timer task.                                      *)
(***************************************************************************)
C16_PrimitivesGuarded ==
  [][(/\ Len(ops') = Len(ops) + 1
      /\ ops'[Len(ops')].op \in {"doResolve", "doReject"}
      /\ ops'[Len(ops')].before # PENDING)
       => UNCHANGED <<state, value, tasks>>]_vars

\* the last then call, in a step that is a then call
ThenMade == regs'[Len(regs')]
\* then call r was made on a settled promise without a callable handler for its state
ReturnsThis(r) == r.before # PENDING /\ ~isFunction(IF r.before = FULFILLED THEN r.onResolved
                                                                              ELSE r.onRejected)

(***************************************************************************)
(* C18 Identity of then's result: a then call on a settled promise without *)
(* a callable handler for its state returns that promise and creates no    *)
(* promise; every other then call returns a promise that did not exist     *)
(* before the call and is PENDING after it.                                *)
(***************************************************************************)
C18_ThenResult ==
  [][Len(regs') = Len(regs) + 1 =>
       IF ReturnsThis(ThenMade)
         THEN /\ ThenMade.ret = ThenMade.p
              /\ Len(state') = Len(state)
         ELSE /\ ThenMade.ret = Len(state) + 1
              /\ Len(state') = Len(state) + 1
              /\ state'[ThenMade.ret] = PENDING]_vars

\* then has returned the promise it was called on, and has returned a new promise
\* when called on that promise while it was pending
C18_Witness ==
  \E r1, r2 \in DOMAIN regs :
    /\ regs[r1].ret = regs[r1].p
    /\ regs[r2].p = regs[r1].p
    /\ regs[r2].before = PENDING
    /\ regs[r2].ret # regs[r2].p

\* the errors done call i has thrown at the top level, and the rethrows it has
\* scheduled that have not run yet
RethrownBy(i) == {u \in DOMAIN uncaught : uncaught[u].by = i}
ScheduledBy(i) == {t \in DOMAIN tasks : tasks[t].fn = Fn("rethrow", i, 0)}

\* what holds of every done call in every state
C19_Escalated ==
  \A i \in Ops("done") :
    LET chain == ops[i].chain
    IN /\ ops[i].ret = Undefined
       /\ Cardinality(RethrownBy(i)) + Cardinality(ScheduledBy(i)) <= 1
       /\ \A u \in RethrownBy(i) :
            state[chain] = REJECTED /\ value[chain] = uncaught[u].error
       /\ \A t \in ScheduledBy(i) :
            state[chain] = REJECTED /\ value[chain] = tasks[t].value
       /\ state[chain] = REJECTED /\ tasks = <<>> => RethrownBy(i) # {}

\* the step that throws at the top level is no public call, invokes no handler and
\* settles no promise
C19_RethrowApart ==
  uncaught' # uncaught => budget' = budget /\ log' = log /\ settled' = settled

(***************************************************************************)
(* C19 done escalation: done returns nothing; a done call schedules at     *)
(* most one rethrow, and only of the reason its chain p.then(onFulfilled,  *)
(* onRejected) is REJECTED with; a chain that is REJECTED has had its      *)
(* reason rethrown once no timer task is left; the rethrow happens in a    *)
(* task of its own, apart from the done call and from every handler.       *)
(***************************************************************************)
C19_DoneEscalation == []C19_Escalated /\ [][C19_RethrowApart]_vars

\* then call r has been made, its promise is settled, and it was given a callable
\* handler for the outcome
Due(r) ==
  /\ r \in DOMAIN regs
  /\ state[regs[r].p] # PENDING
  /\ isFunction(HandlerOf(r, state[regs[r].p]))

\* the handler of then call r for its promise's outcome has been invoked with the
\* promise's value, and the promise then returned is settled
Served(r) ==
  /\ \E i \in DOMAIN log :
       /\ log[i].reg = r
       /\ log[i].ix = state[regs[r].p]
       /\ log[i].arg = value[regs[r].p]
  /\ state[regs[r].ret] # PENDING

(***************************************************************************)
(* C20 Liveness of chains: under a fair scheduler every then call with a   *)
(* callable handler for its promise's outcome has, some time after the     *)
(* promise is settled, that handler invoked with the promise's value and   *)
(* the promise it returned settled (the handlers return their argument, a  *)
(* value that is no thenable, or throw it).                                *)
(***************************************************************************)
C20_ChainsProgress == \A r \in 1..ChainCalls : Due(r) ~> Served(r)

\* a then call made on a pending promise has been served after the promise was
\* rejected: its onRejected threw and the promise it returned is REJECTED
C20_Witness ==
  \E r \in DOMAIN regs :
    /\ regs[r].before = PENDING
    /\ Due(r)
    /\ Served(r)
    /\ regs[r].onRejected.k = "throw"
    /\ state[regs[r].ret] = REJECTED

====
